---- MODULE Spec2Model ----
(***************************************************************************)
(* liskov-semver: one run of the command-line tool, from the git queries   *)
(* through packaging, witness files and the two tsc runs to the version    *)
(* decision and the line written on standard output.                       *)
(***************************************************************************)
EXTENDS Integers, Sequences, FiniteSets, TLC

\* ------------------------------------------------------------------ bounds
\* Largest major, minor and patch number of a version read from a manifest.
MaxNum == 1
\* Longest list of tag names printed by git tag.
MaxTags == 2
\* Largest number of entries of the exports map of a package.json.
MaxExports == 2
\* Largest number of data events on one stream of a child process.
MaxChunks == 2

\* ------------------------------------------------------------------ semver
\* A prerelease identifier: numeric (compared as a number) or alphanumeric
\* (compared as a string; v is its rank in lexical order).
NumId(n) == [num |-> TRUE, v |-> n]
AlphaId(n) == [num |-> FALSE, v |-> n]

\* A version: the value semver calls `version` (no leading v, no build).
Ver(ma, mi, pa, pre) == [major |-> ma, minor |-> mi, patch |-> pa, pre |-> pre]

\* JavaScript null where a version string is expected.
Null == Ver(-1, 0, 0, <<>>)

\* The literal "0.1.0".
V010 == Ver(0, 1, 0, <<>>)

PreReleases == {<<>>, <<NumId(0)>>}

Versions ==
    {Ver(ma, mi, pa, pre) : ma \in 0..MaxNum, mi \in 0..MaxNum,
                            pa \in 0..MaxNum, pre \in PreReleases}

Sign(n) == IF n < 0 THEN -1 ELSE IF n > 0 THEN 1 ELSE 0

compareIdentifiers(a, b) ==
    IF a.num /\ b.num THEN Sign(a.v - b.v)
    ELSE IF a.num THEN -1
    ELSE IF b.num THEN 1
    ELSE Sign(a.v - b.v)

compareMain(a, b) ==
    IF a.major # b.major THEN Sign(a.major - b.major)
    ELSE IF a.minor # b.minor THEN Sign(a.minor - b.minor)
    ELSE Sign(a.patch - b.patch)

RECURSIVE comparePreFrom(_, _, _)
comparePreFrom(p, q, i) ==
    IF i > Len(p) /\ i > Len(q) THEN 0
    ELSE IF i > Len(q) THEN 1
    ELSE IF i > Len(p) THEN -1
    ELSE IF p[i] = q[i] THEN comparePreFrom(p, q, i + 1)
    ELSE compareIdentifiers(p[i], q[i])

comparePre(a, b) ==
    IF a.pre # <<>> /\ b.pre = <<>> THEN -1
    ELSE IF a.pre = <<>> /\ b.pre # <<>> THEN 1
    ELSE IF a.pre = <<>> /\ b.pre = <<>> THEN 0
    ELSE comparePreFrom(a.pre, b.pre, 1)

\* semver.compare(a, b) on two versions
compare(a, b) ==
    IF compareMain(a, b) # 0 THEN compareMain(a, b) ELSE comparePre(a, b)

\* semver.rcompare(a, b)
rcompare(a, b) == compare(b, a)

\* semver.inc(version, release): null for a version that does not parse
inc(v, release) ==
    IF v = Null THEN Null
    ELSE IF release = "major" THEN
        Ver(IF v.minor # 0 \/ v.patch # 0 \/ v.pre = <<>>
            THEN v.major + 1 ELSE v.major, 0, 0, <<>>)
    ELSE IF release = "minor" THEN
        Ver(v.major,
            IF v.patch # 0 \/ v.pre = <<>> THEN v.minor + 1 ELSE v.minor,
            0, <<>>)
    ELSE
        Ver(v.major, v.minor,
            IF v.pre = <<>> THEN v.patch + 1 ELSE v.patch, <<>>)

\* A string that may name a version: a tag name, a manifest's version field.
\* ok: whether it parses; v: a leading "v"; build: a "+build" suffix.
Raw(ok, v, ver, build) == [ok |-> ok, v |-> v, ver |-> ver, build |-> build]
Junk == Raw(FALSE, FALSE, Null, FALSE)
Plain(ver) == Raw(TRUE, FALSE, ver, FALSE)
\* undefined / null in place of a string
Absent == Raw(FALSE, TRUE, Null, FALSE)

\* semver.valid(raw): the parsed version, without prefix and build; or null
valid(raw) == IF raw.ok THEN raw.ver ELSE Null

\* the version of the tag bumped before it is returned
parseToString_bumped(raw) == inc(valid(raw), "patch")

\* `${semver.parse(raw)}`: the SemVer object prints as its version
parseToString(raw) == valid(raw)

\* latest with the pair left unsorted
latest_unsorted(leftSemVer, rightSemVer) ==
    IF leftSemVer = Null \/ rightSemVer = Null
    THEN [ok |-> FALSE, ver |-> Null]
    ELSE [ok |-> TRUE, ver |-> leftSemVer]

\* latest with the pair sorted by compare in place of rcompare
latest_ascending(leftSemVer, rightSemVer) ==
    IF leftSemVer = Null \/ rightSemVer = Null
    THEN [ok |-> FALSE, ver |-> Null]
    ELSE [ok |-> TRUE,
          ver |-> IF compare(leftSemVer, rightSemVer) > 0
                  THEN rightSemVer ELSE leftSemVer]

\* latest(leftSemVer, rightSemVer): sort the pair by rcompare (stable), take
\* the first; ok is FALSE when the comparator throws on a null.
latest(leftSemVer, rightSemVer) ==
    IF leftSemVer = Null \/ rightSemVer = Null
    THEN [ok |-> FALSE, ver |-> Null]
    ELSE [ok |-> TRUE,
          ver |-> IF rcompare(leftSemVer, rightSemVer) > 0
                  THEN rightSemVer ELSE leftSemVer]


\* ------------------------------------------------------------- environment
\* process.exit status of a child: 0, non-zero, or null (killed by a signal)
NoCode == -1
ExitCodes == {0, 1, NoCode}

\* A package.json as JSON.parse(fs.readFileSync(...)) finds it.
\* package.json contents: what JSON.parse gives (kind), and for an object
\* its version field, whether it has a types field, and the entries of its
\* exports map in the order Object.entries lists them
PackageJson(kind, version, types, exports) ==
    [kind |-> kind, version |-> version, types |-> types,
     exports |-> exports]
\* a package with a root type-declaration file and no exports map
Manifest(kind, version) == PackageJson(kind, version, TRUE, <<>>)
NoManifest == Manifest("none", Absent)
ManifestVersionFields == {Absent, Junk} \cup {Plain(v) : v \in Versions}
Manifests ==
    {Manifest("object", r) : r \in ManifestVersionFields}
    \cup {Manifest(k, Absent) :
            k \in {"array", "null", "primitive", "unparsable", "missing"}}

\* Names git tag may print in a run: one that is no version, and "v1.0.1";
\* the empty string is the text after the last "\n".
EmptyLine == Junk
TagNames == {Junk, Raw(TRUE, TRUE, Ver(1, 0, 1, <<>>), FALSE)}
TagOutputs == UNION {[1..n -> TagNames] : n \in 0..MaxTags}

\* stdout.split("\n") of the lines git printed, each ended by "\n"
split(lines) == lines \o <<EmptyLine>>

Branches == {"", "main"}
Commits == {"c1", "c2"}

Proc(cmd, arg) == [cmd |-> cmd, arg |-> arg]

\* ------------------------------------------------------------------- state
VARIABLES
    errorOnDirty,        \* argv.errorOnDirty
    treeDirty,           \* git status --porcelain prints something
    prevManifest,        \* package.json at the commit of the previous tag
    curManifest,         \* package.json in the clone of the current branch
    pc,                  \* where the run is
    spawned,             \* processes spawned so far, in order
    failed,              \* spawned processes (tsc aside) that exited non-zero
    gitOut,              \* {code, stdout} a git query resolved with
    previousVersion,     \* main: name of the highest tag
    previousVersionHash,
    currentVersion,      \* main: name of the current branch
    currentVersionHash,
    tempDir,             \* withTempDir: "none", "created", "removed"
    dep,                 \* createTgzDependency: the name being packaged
    pmName,              \* pm(dir) of the directory being packaged
    previousSemVer,
    currentSemVer,
    tsc,                 \* per witness file: "idle", "running", "ok", "fail"
    forwards,
    backwards,
    bump,                \* release type passed to semver.inc
    newSemVer,
    retval,              \* what main resolved with
    thrown,              \* message of the error main rejected with
    stdout,              \* the version written on standard output
    exitCode,            \* process.exit status; NoCode while running
    written,             \* files written in the scratch workspace
    errorOnUnreachable,  \* argv.errorOnUnreachable (earlier revision of main)
    released,            \* versions printed by the runs of tests/test so far
    closed,              \* close events of the tsc processes, in order
    firstRun,            \* what an earlier run on the same repository did
    previousEndpoints,   \* entry points extracted from previousVersion
    currentEndpoints,    \* entry points extracted from currentVersion
    args,                \* parseArgs: the options given on the command line
    argv,                \* parseArgs: what yargs parsed, as updated since
    repo,                \* parseArgs: the names and the branch git.mjs finds
    promise              \* spawn: the promise returned and what it captured

vars == <<errorOnDirty, treeDirty, prevManifest, curManifest, pc, spawned,
          failed, gitOut, previousVersion, previousVersionHash,
          currentVersion, currentVersionHash, tempDir, dep, pmName,
          previousSemVer, currentSemVer, tsc, forwards, backwards, bump,
          newSemVer, retval, thrown, stdout, exitCode, written,
          errorOnUnreachable, released, closed, firstRun,
          previousEndpoints, currentEndpoints, args, argv, repo, promise>>

inputs == <<errorOnDirty, treeDirty, prevManifest>>
refs == <<previousVersion, previousVersionHash, currentVersion,
          currentVersionHash>>
extracted == <<previousSemVer, currentSemVer, previousEndpoints,
               currentEndpoints>>
oracle == <<tsc, forwards, backwards>>
decision == <<bump, newSemVer>>
output == <<stdout, exitCode>>
\* what only the specifications further down change
calls == <<args, argv, repo, promise>>
aside == <<errorOnUnreachable, released, closed, firstRun, calls>>

NoGitOut == [code |-> NoCode, lines |-> <<>>]
NoRef == "null"
Files == {"currentFitsPrevious.ts", "previousFitsCurrent.ts"}
NoFiles == <<>>
NoRun == [ran |-> FALSE]
NoArgs == [from |-> Junk, to |-> Junk]
NoRepo == [tagsAndBranches |-> <<>>, currentBranch |-> NoRef]
NoPromise == [state |-> "none"]

Init ==
    /\ errorOnDirty \in BOOLEAN
    /\ treeDirty \in BOOLEAN
    /\ prevManifest \in Manifests
    /\ curManifest = NoManifest
    /\ pc = "getRoot"
    /\ spawned = <<>>
    /\ failed = {}
    /\ gitOut = NoGitOut
    /\ previousVersion = Absent
    /\ previousVersionHash = NoRef
    /\ currentVersion = NoRef
    /\ currentVersionHash = NoRef
    /\ tempDir = "none"
    /\ dep = "none"
    /\ pmName = "none"
    /\ previousSemVer = Null
    /\ currentSemVer = Null
    /\ tsc = [f \in Files |-> "idle"]
    /\ forwards = FALSE
    /\ backwards = FALSE
    /\ bump = "none"
    /\ newSemVer = Null
    /\ retval = Null
    /\ thrown = ""
    /\ stdout = Null
    /\ exitCode = NoCode
    /\ written = NoFiles
    /\ errorOnUnreachable = FALSE
    /\ released = <<>>
    /\ closed = <<>>
    /\ firstRun = NoRun
    /\ previousEndpoints = <<>>
    /\ currentEndpoints = <<>>
    /\ args = NoArgs
    /\ argv = NoArgs
    /\ repo = NoRepo
    /\ promise = NoPromise

\* spawn(command, args, options) awaited: the process is spawned and closes
\* with `code`; it is recorded, and recorded as failed when code is not 0.
Spawned(p, code) ==
    /\ spawned' = Append(spawned, p)
    /\ failed' = IF code = 0 THEN failed ELSE failed \cup {p}

\* throw new Error(msg) in main, outside withTempDir
Throw(msg) ==
    /\ thrown' = msg
    /\ pc' = "threw"

\* withTempDir without its finally block: the error leaves at once
ThrowInTempDir_noFinally(msg) ==
    /\ thrown' = msg
    /\ pc' = "threw"

\* throw inside the withTempDir callback: the finally block runs next
ThrowInTempDir(msg) ==
    /\ thrown' = msg
    /\ pc' = "finally"

\* ------------------------------------------------------------ git queries
\* getRoot: git rev-parse --show-toplevel
getRoot ==
    /\ pc = "getRoot"
    /\ \E code \in ExitCodes :
        /\ Spawned(Proc("git rev-parse", "."), code)
        /\ IF code = 0
           THEN pc' = "isDirty" /\ UNCHANGED thrown
           ELSE Throw("error: cannot determine git root")
    /\ UNCHANGED <<inputs, aside, written, curManifest, gitOut, refs,
                   tempDir, dep, pmName, extracted, oracle, decision, retval,
                   output>>

\* isDirty looking at the exit status alone
isDirtyResult_statusOnly(code, stdoutEmpty) == code # 0

\* isDirty's result from the exit status and whether stdout.trim() is ""
isDirtyResult(code, stdoutEmpty) == ~(code = 0 /\ stdoutEmpty)

\* errorOnDirty && (await isDirty(root))
isDirty ==
    /\ pc = "isDirty"
    /\ IF errorOnDirty
       THEN \E code \in ExitCodes :
              /\ Spawned(Proc("git status", "."), code)
              /\ IF isDirtyResult(code, ~treeDirty)
                 THEN Throw("error: dirty working tree")
                 ELSE pc' = "getHighestVersionTag" /\ UNCHANGED thrown
       ELSE /\ pc' = "getHighestVersionTag"
            /\ UNCHANGED <<spawned, failed, thrown>>
    /\ UNCHANGED <<inputs, aside, written, curManifest, gitOut, refs,
                   tempDir, dep, pmName, extracted, oracle, decision, retval,
                   output>>

\* the tag names compared in ascending order
rcompareRaw_ascending(a, b) == compare(valid(a), valid(b))

\* semver.rcompare(a, b) on two tag names
rcompareRaw(a, b) == rcompare(valid(a), valid(b))
\* the filter of getHighestVersionTag letting every line through
isValidTag_any(tag) == TRUE
isValidTag(tag) == valid(tag) # Null

\* tags.sort(semver.rcompare): Array.prototype.sort is a stable sort, the
\* insertion of each element after the elements it does not precede.
RECURSIVE insertSorted(_, _)
insertSorted(x, sorted) ==
    IF sorted = <<>> THEN <<x>>
    ELSE IF rcompareRaw(x, Head(sorted)) < 0 THEN <<x>> \o sorted
    ELSE <<Head(sorted)>> \o insertSorted(x, Tail(sorted))

RECURSIVE sortTags(_)
sortTags(seq) ==
    IF seq = <<>> THEN <<>>
    ELSE insertSorted(seq[Len(seq)], sortTags(SubSeq(seq, 1, Len(seq) - 1)))

\* getHighestVersionTag after git tag --merged resolved with {code, stdout}
highestVersionTag(code, lines) ==
    LET tags == IF code = 0 THEN SelectSeq(split(lines), isValidTag) ELSE <<>>
        sorted == sortTags(tags)
    IN  IF sorted = <<>> THEN Absent ELSE sorted[1]

\* getHighestVersionTag: git tag --merged closes
gitTag ==
    /\ pc = "getHighestVersionTag"
    /\ \E code \in ExitCodes, out \in TagOutputs :
        /\ Spawned(Proc("git tag", "."), code)
        /\ gitOut' = [code |-> code, lines |-> out]
    /\ pc' = "tagsListed"
    /\ UNCHANGED <<inputs, aside, written, curManifest, refs, tempDir, dep,
                   pmName, extracted, oracle, decision, retval, thrown,
                   output>>

\* getHighestVersionTag returns; main returns "0.1.0" when it is null
getHighestVersionTag ==
    /\ pc = "tagsListed"
    /\ previousVersion' = highestVersionTag(gitOut.code, gitOut.lines)
    /\ gitOut' = NoGitOut
    /\ IF previousVersion' = Absent
       THEN retval' = V010 /\ pc' = "returned"
       ELSE pc' = "getRefCommitPrevious" /\ UNCHANGED retval
    /\ UNCHANGED <<inputs, aside, written, curManifest, spawned, failed,
                   previousVersionHash, currentVersion, currentVersionHash,
                   tempDir, dep, pmName, extracted, oracle, decision, thrown,
                   output>>

\* getRefCommit(root, previousVersion, "tag")
getRefCommitPrevious ==
    /\ pc = "getRefCommitPrevious"
    /\ \E code \in ExitCodes :
        /\ Spawned(Proc("git rev-list", "tags"), code)
        /\ IF code = 0
           THEN /\ previousVersionHash' = "c1"
                /\ pc' = "getCurrentBranch"
                /\ UNCHANGED thrown
           ELSE /\ Throw("error: cannot determine commit for previous version")
                /\ UNCHANGED previousVersionHash
    /\ UNCHANGED <<inputs, aside, written, curManifest, gitOut,
                   previousVersion, currentVersion, currentVersionHash,
                   tempDir, dep, pmName, extracted, oracle, decision, retval,
                   output>>

\* getCurrentBranch: git branch --show-current prints "" on a detached HEAD
getCurrentBranch ==
    /\ pc = "getCurrentBranch"
    /\ \E code \in ExitCodes, branch \in Branches :
        /\ Spawned(Proc("git branch", "."), code)
        /\ IF code = 0
           THEN /\ currentVersion' = branch
                /\ pc' = "getRefCommitCurrent"
                /\ UNCHANGED thrown
           ELSE /\ Throw("error: no current version --- detached HEAD?")
                /\ UNCHANGED currentVersion
    /\ UNCHANGED <<inputs, aside, written, curManifest, gitOut,
                   previousVersion, previousVersionHash, currentVersionHash,
                   tempDir, dep, pmName, extracted, oracle, decision, retval,
                   output>>

\* getRefCommit(root, currentVersion, "head"), then the comparison of the two
\* hashes; git rev-list -1 heads/ (no branch name) cannot exit 0
getRefCommitCurrent ==
    /\ pc = "getRefCommitCurrent"
    /\ \E code \in ExitCodes, hash \in Commits :
        /\ currentVersion = "" => code # 0
        /\ Spawned(Proc("git rev-list", "heads"), code)
        /\ IF code # 0
           THEN /\ Throw("error: cannot determine commit for current version")
                /\ UNCHANGED <<currentVersionHash, retval>>
           ELSE /\ currentVersionHash' = hash
                /\ UNCHANGED thrown
                /\ IF previousVersionHash = hash
                   THEN /\ retval' = parseToString(previousVersion)
                        /\ pc' = "returned"
                   ELSE /\ pc' = "mkdtemp"
                        /\ UNCHANGED retval
    /\ UNCHANGED <<inputs, aside, written, curManifest, gitOut,
                   previousVersion, previousVersionHash, currentVersion,
                   tempDir, dep, pmName, extracted, oracle, decision, output>>

\* ------------------------------------------------------------- withTempDir
\* withTempDir: fs.promises.mkdtemp, then the callback starts with the
\* packaging of the previous version
mkdtemp ==
    /\ pc = "mkdtemp"
    /\ \E ok \in BOOLEAN :
        IF ok
        THEN /\ tempDir' = "created"
             /\ dep' = "previousVersion"
             /\ pc' = "mkdir"
             /\ UNCHANGED thrown
        ELSE /\ Throw("mkdtemp failed")
             /\ UNCHANGED <<tempDir, dep>>
    /\ UNCHANGED <<inputs, aside, written, curManifest, spawned, failed,
                   gitOut, refs, pmName, extracted, oracle, decision, retval,
                   output>>

\* ---------------------------------------------------- createTgzDependency
Deps == {"previousVersion", "currentVersion"}
PackageManagers == {"yarn", "pnpm", "npm"}

\* fs.promises.mkdir(dir)
mkdir ==
    /\ pc = "mkdir"
    /\ \E ok \in BOOLEAN :
        IF ok THEN pc' = "clone" /\ UNCHANGED thrown
        ELSE ThrowInTempDir("mkdir failed")
    /\ UNCHANGED <<inputs, aside, written, curManifest, spawned, failed,
                   gitOut, refs, tempDir, dep, pmName, extracted, oracle,
                   decision, retval, output>>

\* cloneTo(root, dir, ref): the clone brings the lock file pm(dir) looks for
cloneTo ==
    /\ pc = "clone"
    /\ \E code \in ExitCodes, pm \in PackageManagers :
        /\ Spawned(Proc("git clone", dep), code)
        /\ IF code = 0
           THEN /\ pc' = "rename"
                /\ pmName' = pm
                /\ UNCHANGED thrown
           ELSE /\ ThrowInTempDir("error: failed to clone to temporary directory")
                /\ UNCHANGED pmName
    /\ UNCHANGED <<inputs, aside, written, curManifest, gitOut, refs,
                   tempDir, dep, extracted, oracle, decision, retval, output>>

\* pm_rename(dir, name): npm pkg set name=NAME
pm_rename ==
    /\ pc = "rename"
    /\ \E code \in ExitCodes :
        /\ Spawned(Proc("rename", dep), code)
        /\ IF code = 0 THEN pc' = "install" /\ UNCHANGED thrown
           ELSE ThrowInTempDir("error: failed to rename")
    /\ UNCHANGED <<inputs, aside, written, curManifest, gitOut, refs,
                   tempDir, dep, pmName, extracted, oracle, decision, retval,
                   output>>

\* createTgzDependency going on whatever pm_install returned
pm_install_unchecked ==
    /\ pc = "install"
    /\ \E code \in ExitCodes : Spawned(Proc("install", dep), code)
    /\ pc' = "build"
    /\ UNCHANGED <<inputs, aside, written, curManifest, gitOut, refs,
                   tempDir, dep, pmName, extracted, oracle, decision, retval,
                   thrown, output>>

\* pm_install(dir, false)
pm_install ==
    /\ pc = "install"
    /\ \E code \in ExitCodes :
        /\ Spawned(Proc("install", dep), code)
        /\ IF code = 0 THEN pc' = "build" /\ UNCHANGED thrown
           ELSE ThrowInTempDir("error: failed to install")
    /\ UNCHANGED <<inputs, aside, written, curManifest, gitOut, refs,
                   tempDir, dep, pmName, extracted, oracle, decision, retval,
                   output>>

\* What pm_build does for yarn before it spawns anything: it reads the
\* manifest; "run" when scripts.build exists, "skip" when it does not.
yarnBuildPlan(m, hasBuild) ==
    IF m.kind \in {"missing", "unparsable"} THEN "cannot read package.json"
    ELSE IF m.kind = "primitive" THEN "error: malformed package.json"
    ELSE IF m.kind = "null" THEN "TypeError"
    ELSE IF m.kind = "object" /\ hasBuild THEN "run"
    ELSE "skip"

\* pm_build(dir); the package.json yarn's branch reads in the clone of the
\* current branch is whatever that branch holds
pm_build ==
    /\ pc = "build"
    /\ \E code \in ExitCodes, hasBuild \in BOOLEAN, m \in Manifests :
        LET plan == IF pmName = "yarn"
                    THEN yarnBuildPlan(IF dep = "previousVersion"
                                       THEN prevManifest ELSE m, hasBuild)
                    ELSE "run"
        IN  IF plan = "run"
            THEN /\ Spawned(Proc("build", dep), code)
                 /\ IF code = 0 THEN pc' = "pack" /\ UNCHANGED thrown
                    ELSE ThrowInTempDir("error: failed to build")
            ELSE IF plan = "skip"
            THEN /\ pc' = "pack"
                 /\ UNCHANGED <<spawned, failed, thrown>>
            ELSE /\ ThrowInTempDir(plan)
                 /\ UNCHANGED <<spawned, failed>>
    /\ UNCHANGED <<inputs, aside, written, curManifest, gitOut, refs,
                   tempDir, dep, pmName, extracted, oracle, decision, retval,
                   output>>

\* pm_packTo(dir, to): yarn pack, pnpm pack or npm pack
pm_pack ==
    /\ pc = "pack"
    /\ \E code \in ExitCodes :
        /\ Spawned(Proc("pack", dep), code)
        /\ IF code = 0 THEN pc' = "mv" /\ UNCHANGED thrown
           ELSE ThrowInTempDir("error: failed to pack")
    /\ UNCHANGED <<inputs, aside, written, curManifest, gitOut, refs,
                   tempDir, dep, pmName, extracted, oracle, decision, retval,
                   output>>

\* pm_packTo(dir, to): mv of the archive; createTgzDependency returns, and
\* createVersionWitnesses goes on to the current version, then to extraction
pm_packTo_mv ==
    /\ pc = "mv"
    /\ \E code \in ExitCodes :
        /\ Spawned(Proc("mv", dep), code)
        /\ IF code = 0
           THEN /\ UNCHANGED thrown
                /\ pmName' = "none"
                /\ IF dep = "previousVersion"
                   THEN dep' = "currentVersion" /\ pc' = "mkdir"
                   ELSE dep' = "none" /\ pc' = "extract"
           ELSE /\ ThrowInTempDir("error: failed to pack")
                /\ UNCHANGED <<dep, pmName>>
    /\ UNCHANGED <<inputs, aside, written, curManifest, gitOut, refs,
                   tempDir, extracted, oracle, decision, retval, output>>

\* ------------------------------------------------- createVersionWitnesses
\* Keys an exports map may have, with their UTF-16 code units, and the
\* values it may give them: a path, null, a conditions object without a
\* types field, and one with a types field.
ExportKeys == {"", ".", "./a", "./b"}
CodeUnits(key) ==
    IF key = "" THEN <<>>
    ELSE IF key = "." THEN <<46>>
    ELSE IF key = "./a" THEN <<46, 47, 97>>
    ELSE <<46, 47, 98>>
ExportValues == {"string", "null", "noTypes", "withTypes"}
ExportsMaps ==
    UNION {{e \in [1..n -> [key : ExportKeys, value : ExportValues]] :
              \A i, j \in 1..n : e[i].key = e[j].key => i = j} :
           n \in 0..MaxExports}

\* a < b for the default comparison of Array.prototype.sort: by code units
RECURSIVE codeUnitsLess(_, _)
codeUnitsLess(a, b) ==
    IF b = <<>> THEN FALSE
    ELSE IF a = <<>> THEN TRUE
    ELSE IF Head(a) # Head(b) THEN Head(a) < Head(b)
    ELSE codeUnitsLess(Tail(a), Tail(b))
stringLess(a, b) == codeUnitsLess(CodeUnits(a), CodeUnits(b))

\* entryPoints.sort(): equal strings are both kept
RECURSIVE insertString(_, _)
insertString(sorted, x) ==
    IF sorted = <<>> THEN <<x>>
    ELSE IF stringLess(x, Head(sorted))
    THEN <<x>> \o sorted
    ELSE <<Head(sorted)>> \o insertString(Tail(sorted), x)
RECURSIVE sortStrings(_)
sortStrings(list) ==
    IF list = <<>> THEN <<>>
    ELSE insertString(sortStrings(SubSeq(list, 1, Len(list) - 1)),
                      list[Len(list)])

\* the filter callback: typeof value === "object" && "types" in value;
\* typeof null is "object", and the in operator throws on null
hasTypes(value) == value = "withTypes"
filterThrows(exports) == \E i \in DOMAIN exports : exports[i].value = "null"

\* the keys of the exports that pass the filter, in the order of the map
RECURSIVE exportedEntryPoints(_)
exportedEntryPoints(exports) ==
    IF exports = <<>> THEN <<>>
    ELSE (IF hasTypes(Head(exports).value) THEN <<Head(exports).key>>
          ELSE <<>>) \o exportedEntryPoints(Tail(exports))

\* extractEntryPointsAndVersion(dir): the sorted entry points and the
\* declared version, or the error. An array is an object without a types
\* field, an exports field or a version field.
extractEntryPointsAndVersion(m) ==
    LET failure(err) ==
            [ok |-> FALSE, err |-> err, entryPoints |-> <<>>,
             version |-> Null]
    IN  IF m.kind \in {"missing", "unparsable"}
        THEN failure("cannot read package.json")
        ELSE IF m.kind = "primitive"
        THEN failure("error: malformed package.json")
        ELSE IF m.kind = "null"
        THEN failure("TypeError")
        ELSE IF m.kind = "array"
        THEN [ok |-> TRUE, err |-> "", entryPoints |-> <<>>,
              version |-> valid(Absent)]
        ELSE IF filterThrows(m.exports)
        THEN failure("TypeError")
        ELSE [ok |-> TRUE, err |-> "",
              entryPoints |->
                  sortStrings((IF m.types THEN <<"">> ELSE <<>>)
                              \o exportedEntryPoints(m.exports)),
              version |-> valid(m.version)]

\* the two extractEntryPointsAndVersion calls of createVersionWitnesses; the
\* second reads the package.json of the current branch's clone
extract ==
    /\ pc = "extract"
    /\ \E m \in Manifests :
        LET previous == extractEntryPointsAndVersion(prevManifest)
            current == extractEntryPointsAndVersion(m)
        IN  IF ~previous.ok
            THEN /\ ThrowInTempDir(previous.err)
                 /\ UNCHANGED <<extracted, curManifest>>
            ELSE /\ curManifest' = m
                 /\ IF ~current.ok
                    THEN ThrowInTempDir(current.err) /\ UNCHANGED extracted
                    ELSE /\ previousSemVer' = previous.version
                         /\ currentSemVer' = current.version
                         /\ previousEndpoints' = previous.entryPoints
                         /\ currentEndpoints' = current.entryPoints
                         /\ pc' = "writeFile"
                         /\ UNCHANGED thrown
    /\ UNCHANGED <<inputs, aside, written, spawned, failed, gitOut, refs,
                   tempDir, dep, pmName, oracle, decision, retval, output>>

\* the assertion lines of the two witnesses exchanged
witnessAssertion_swapped(file) ==
    IF file = "currentFitsPrevious.ts"
    THEN [param |-> "currentVersion", arg |-> "previousVersion"]
    ELSE [param |-> "previousVersion", arg |-> "currentVersion"]

\* The line a witness ends with, after commonSource:
\* ((_: typeof <param>): void => void {})(<arg>);
witnessAssertion(file) ==
    IF file = "currentFitsPrevious.ts"
    THEN [param |-> "previousVersion", arg |-> "currentVersion"]
    ELSE [param |-> "currentVersion", arg |-> "previousVersion"]

\* the dependencies of the package.json written in the scratch workspace
workspaceManifest ==
    [previousVersion |-> "./previousVersion.tgz",
     currentVersion |-> "./currentVersion.tgz",
     typescript |-> "next"]

WorkspaceFiles == Files \cup {"package.json"}

\* the three fs.promises.writeFile calls: package.json and the two
\* witnesses; what a failed Promise.all left behind is not recorded
writeFile ==
    /\ pc = "writeFile"
    /\ \E ok \in BOOLEAN :
        IF ok
        THEN /\ written' = [f \in WorkspaceFiles |->
                               IF f = "package.json" THEN workspaceManifest
                               ELSE witnessAssertion(f)]
             /\ pc' = "installBase"
             /\ UNCHANGED thrown
        ELSE /\ ThrowInTempDir("writeFile failed")
             /\ UNCHANGED written
    /\ UNCHANGED <<inputs, aside, curManifest, spawned, failed, gitOut, refs,
                   tempDir, dep, pmName, extracted, oracle, decision, retval,
                   output>>

\* createVersionWitnesses going on whatever pm_install(base, true) returned
pm_installBase_unchecked ==
    /\ pc = "installBase"
    /\ \E code \in ExitCodes : Spawned(Proc("install", "base"), code)
    /\ pc' = "tsc"
    /\ UNCHANGED <<inputs, aside, written, curManifest, gitOut, refs,
                   tempDir, dep, pmName, extracted, oracle, decision, retval,
                   thrown, output>>

\* pm_install(base, true)
pm_installBase ==
    /\ pc = "installBase"
    /\ \E code \in ExitCodes :
        /\ Spawned(Proc("install", "base"), code)
        /\ IF code = 0 THEN pc' = "tsc" /\ UNCHANGED thrown
           ELSE ThrowInTempDir("error: failed to install")
    /\ UNCHANGED <<inputs, aside, written, curManifest, gitOut, refs,
                   tempDir, dep, pmName, extracted, oracle, decision, retval,
                   output>>

\* -------------------------------------------- liskovSemVerForwardsBackwards
\* tscOk taking every status that is not a positive number for success
tscOk_unlessPositive(code) == ~(code > 0)

\* tscOk's result from the exit status of tsc
tscOk(code) == code = 0

\* Promise.all([tscOk(...), tscOk(...)]): both tsc processes are spawned
\* before either is awaited
spawnTsc ==
    /\ pc = "tsc"
    /\ spawned' = spawned \o <<Proc("tsc", "currentFitsPrevious.ts"),
                               Proc("tsc", "previousFitsCurrent.ts")>>
    /\ tsc' = [f \in Files |-> "running"]
    /\ pc' = "awaitTsc"
    /\ UNCHANGED <<inputs, aside, written, curManifest, failed, gitOut, refs,
                   tempDir, dep, pmName, extracted, forwards, backwards,
                   decision, retval, thrown, output>>

\* the tsc process of witness file f closes with `code` and tscOk returns;
\* when both have, Promise.all resolves and the callback returns
tscCloseWith(f, code) ==
    /\ pc = "awaitTsc"
    /\ tsc[f] = "running"
    /\ tsc' = [tsc EXCEPT ![f] = IF tscOk(code) THEN "ok" ELSE "fail"]
    /\ pc' = IF \A g \in Files : tsc'[g] # "running" THEN "finally"
             ELSE "awaitTsc"
    /\ UNCHANGED <<inputs, written, curManifest, spawned, failed, gitOut,
                   refs, tempDir, dep, pmName, extracted, forwards, backwards,
                   decision, retval, thrown, output>>

\* a tsc process closes
tscClose(f) ==
    /\ \E code \in ExitCodes : tscCloseWith(f, code)
    /\ UNCHANGED aside

\* the array a Promise.all of the two tscOk calls would resolve with if it
\* kept the values in the order the calls settled
tscResults_asSettled(t, order) ==
    IF Len(order) = Cardinality(Files)
    THEN [i \in DOMAIN order |-> t[order[i].file] = "ok"]
    ELSE <<t["currentFitsPrevious.ts"] = "ok",
           t["previousFitsCurrent.ts"] = "ok">>

\* the array Promise.all resolves with: the values of the two tscOk calls in
\* the order of the calls, whatever the order the processes closed in
tscResults(t, order) ==
    <<t["currentFitsPrevious.ts"] = "ok", t["previousFitsCurrent.ts"] = "ok">>

\* the finally block with a rejected rm swallowed: the callback's outcome
\* goes on as if the directory had been removed
finally_rmIgnored ==
    /\ pc = "finally"
    /\ tempDir = "created"
    /\ \E ok \in BOOLEAN :
        /\ tempDir' = IF ok THEN "removed" ELSE "rmFailed"
        /\ IF thrown # ""
           THEN /\ pc' = "threw"
                /\ UNCHANGED <<thrown, forwards, backwards>>
           ELSE /\ pc' = "decide"
                /\ forwards' = tscResults(tsc, closed)[1]
                /\ backwards' = tscResults(tsc, closed)[2]
                /\ UNCHANGED thrown
    /\ UNCHANGED <<inputs, aside, written, curManifest, spawned, failed,
                   gitOut, refs, dep, pmName, extracted, tsc, decision, retval,
                   output>>

\* withTempDir's finally block: fs.promises.rm(tempDir, ...); then main
\* destructures what the callback returned, or the error goes on
finally ==
    /\ pc = "finally"
    /\ tempDir = "created"
    /\ \E ok \in BOOLEAN :
        IF ~ok
        THEN /\ tempDir' = "rmFailed"
             /\ Throw("rm failed")
             /\ UNCHANGED <<forwards, backwards>>
        ELSE /\ tempDir' = "removed"
             /\ IF thrown # ""
                THEN /\ pc' = "threw"
                     /\ UNCHANGED <<thrown, forwards, backwards>>
                ELSE /\ pc' = "decide"
                     /\ forwards' = tscResults(tsc, closed)[1]
                     /\ backwards' = tscResults(tsc, closed)[2]
                     /\ UNCHANGED thrown
    /\ UNCHANGED <<inputs, aside, written, curManifest, spawned, failed,
                   gitOut, refs, dep, pmName, extracted, tsc, decision, retval,
                   output>>

\* -------------------------------------------------------------------- main
\* releaseType with the two oracle results taken in the other order
releaseType_swapped(forwardsOk, backwardsOk, P) ==
    IF backwardsOk THEN (IF forwardsOk THEN "patch" ELSE "minor")
    ELSE IF P = Null THEN "TypeError"
    ELSE IF P.major = 0 THEN "minor"
    ELSE "major"

\* releaseType without the test of a zero major
releaseType_alwaysMajor(forwardsOk, backwardsOk, P) ==
    IF forwardsOk THEN (IF backwardsOk THEN "patch" ELSE "minor")
    ELSE IF P = Null THEN "TypeError"
    ELSE "major"

\* The release type main passes to semver.inc; semver.major(null) throws.
releaseType(forwardsOk, backwardsOk, P) ==
    IF forwardsOk THEN (IF backwardsOk THEN "patch" ELSE "minor")
    ELSE IF P = Null THEN "TypeError"
    ELSE IF P.major = 0 THEN "minor"
    ELSE "major"

\* main, from the result of liskovSemVerForwardsBackwards to its return
decide ==
    /\ pc = "decide"
    /\ LET release == releaseType(forwards, backwards, previousSemVer)
           next == inc(previousSemVer, release)
           result == latest(next, currentSemVer)
       IN  IF release = "TypeError"
           THEN /\ Throw("TypeError: Invalid version")
                /\ UNCHANGED <<decision, retval>>
           ELSE /\ bump' = release
                /\ newSemVer' = next
                /\ IF result.ok
                   THEN retval' = result.ver /\ pc' = "returned"
                        /\ UNCHANGED thrown
                   ELSE Throw("TypeError: Invalid version")
                        /\ UNCHANGED retval
    /\ UNCHANGED <<inputs, aside, written, curManifest, spawned, failed,
                   gitOut, refs, tempDir, dep, pmName, extracted, oracle,
                   output>>

\* top level: process.stdout.write(`${await main(...)}\n`); process.exit(0)
exitOk ==
    /\ pc = "returned"
    /\ stdout' = retval
    /\ exitCode' = 0
    /\ pc' = "exited"
    /\ UNCHANGED <<inputs, aside, written, curManifest, spawned, failed,
                   gitOut, refs, tempDir, dep, pmName, extracted, oracle,
                   decision, retval, thrown>>

\* top level: catch (e) { process.stderr.write(e.message); process.exit(1) }
exitError ==
    /\ pc = "threw"
    /\ exitCode' = 1
    /\ pc' = "exited"
    /\ UNCHANGED <<inputs, aside, written, curManifest, spawned, failed,
                   gitOut, refs, tempDir, dep, pmName, extracted, oracle,
                   decision, retval, thrown, stdout>>

Next ==
    \/ getRoot
    \/ isDirty
    \/ gitTag
    \/ getHighestVersionTag
    \/ getRefCommitPrevious
    \/ getCurrentBranch
    \/ getRefCommitCurrent
    \/ mkdtemp
    \/ mkdir
    \/ cloneTo
    \/ pm_rename
    \/ pm_install
    \/ pm_build
    \/ pm_pack
    \/ pm_packTo_mv
    \/ extract
    \/ writeFile
    \/ pm_installBase
    \/ spawnTsc
    \/ \E f \in Files : tscClose(f)
    \/ finally
    \/ decide
    \/ exitOk
    \/ exitError

Spec == Init /\ [][Next]_vars

\* ------------------------------------------- main with errorOnUnreachable
\* The revision of main that takes errorOnUnreachable: between the
\* comparison of the two hashes and liskovSemVerForwardsBackwards it asks
\* isReachable(root, previousVersion, currentVersion).

\* A commit graph: c0 <- c1 <- c2 on one line, c3 a second child of c0.
GraphCommits == {"c0", "c1", "c2", "c3"}
Parents ==
    [c \in GraphCommits |->
        IF c = "c1" THEN {"c0"}
        ELSE IF c = "c2" THEN {"c1"}
        ELSE IF c = "c3" THEN {"c0"}
        ELSE {}]

\* the commits reachable from c, c among them
RECURSIVE Ancestors(_)
Ancestors(c) == {c} \cup UNION {Ancestors(p) : p \in Parents[c]}

\* git rev-list --boundary old..new: the commits reachable from new and not
\* from old and, when there are any, the commits of old's side they stand on
revListBoundary(old, new) ==
    LET listed == Ancestors(new) \ Ancestors(old)
    IN  listed \cup {p \in Ancestors(old) :
                        \E c \in listed : p \in Parents[c]}

\* isReachable's result from the exit status and the commits printed
isReachableResult(code, printed) == code = 0 /\ printed # {}

UnreachableError ==
    "error: current version is not reachable from previous version"

\* main has resolved the tag and the branch to two different commits
InitUnreachable ==
    /\ errorOnDirty = FALSE
    /\ treeDirty = FALSE
    /\ prevManifest = Manifest("object", Plain(V010))
    /\ curManifest = NoManifest
    /\ pc = "isReachable"
    /\ spawned = <<Proc("git rev-parse", "."), Proc("git tag", "."),
                   Proc("git rev-list", "tags"), Proc("git branch", "."),
                   Proc("git rev-list", "heads")>>
    /\ failed = {}
    /\ gitOut = NoGitOut
    /\ previousVersion \in {t \in TagNames : isValidTag(t)}
    /\ previousVersionHash \in GraphCommits
    /\ currentVersion = "main"
    /\ currentVersionHash \in GraphCommits \ {previousVersionHash}
    /\ tempDir = "none"
    /\ dep = "none"
    /\ pmName = "none"
    /\ previousSemVer = Null
    /\ currentSemVer = Null
    /\ tsc = [f \in Files |-> "idle"]
    /\ forwards = FALSE
    /\ backwards = FALSE
    /\ bump = "none"
    /\ newSemVer = Null
    /\ retval = Null
    /\ thrown = ""
    /\ stdout = Null
    /\ exitCode = NoCode
    /\ written = NoFiles
    /\ errorOnUnreachable \in BOOLEAN
    /\ released = <<>>
    /\ closed = <<>>
    /\ firstRun = NoRun
    /\ previousEndpoints = <<>>
    /\ currentEndpoints = <<>>
    /\ args = NoArgs
    /\ argv = NoArgs
    /\ repo = NoRepo
    /\ promise = NoPromise

\* errorOnUnreachable && !(await isReachable(root, previousVersion,
\* currentVersion)); the tag and the branch name the two commits
isReachable ==
    /\ pc = "isReachable"
    /\ IF errorOnUnreachable
       THEN \E code \in ExitCodes :
              /\ Spawned(Proc("git rev-list", "boundary"), code)
              /\ IF isReachableResult(code,
                        revListBoundary(previousVersionHash,
                                        currentVersionHash))
                 THEN pc' = "mkdtemp" /\ UNCHANGED thrown
                 ELSE Throw(UnreachableError)
       ELSE /\ pc' = "mkdtemp"
            /\ UNCHANGED <<spawned, failed, thrown>>
    /\ UNCHANGED <<inputs, aside, written, curManifest, gitOut, refs,
                   tempDir, dep, pmName, extracted, oracle, decision, retval,
                   output>>

\* the run up to the clone of the previous version
NextUnreachable ==
    \/ isReachable
    \/ mkdtemp
    \/ mkdir
    \/ cloneTo
    \/ finally
    \/ exitError

SpecUnreachable == InitUnreachable /\ [][NextUnreachable]_vars

\* ------------------------------------------------------ the list of tags
\* getHighestVersionTag on the lists of names git tag may print: 0.1.0,
\* 1.0.1 plain, with a leading v, with build metadata, and its prereleases
\* 1.0.1-0 and 1.0.1-a; and a name that is no version.
ListedTagNames ==
    LET v101 == Ver(1, 0, 1, <<>>)
    IN  {Junk, Plain(V010), Plain(v101), Raw(TRUE, TRUE, v101, FALSE),
         Raw(TRUE, FALSE, v101, TRUE),
         Plain(Ver(1, 0, 1, <<NumId(0)>>)),
         Plain(Ver(1, 0, 1, <<AlphaId(0)>>))}

ListedTagOutputs == UNION {[1..n -> ListedTagNames] : n \in 0..MaxTags}

\* git tag has closed: main is in getHighestVersionTag
InitTags ==
    /\ errorOnDirty = FALSE
    /\ treeDirty = FALSE
    /\ prevManifest = Manifest("object", Plain(V010))
    /\ curManifest = NoManifest
    /\ pc = "tagsListed"
    /\ \E code \in ExitCodes, out \in ListedTagOutputs :
          /\ gitOut = [code |-> code, lines |-> out]
          /\ spawned = <<Proc("git rev-parse", "."), Proc("git tag", ".")>>
          /\ failed = IF code = 0 THEN {} ELSE {Proc("git tag", ".")}
    /\ previousVersion = Absent
    /\ previousVersionHash = NoRef
    /\ currentVersion = NoRef
    /\ currentVersionHash = NoRef
    /\ tempDir = "none"
    /\ dep = "none"
    /\ pmName = "none"
    /\ previousSemVer = Null
    /\ currentSemVer = Null
    /\ tsc = [f \in Files |-> "idle"]
    /\ forwards = FALSE
    /\ backwards = FALSE
    /\ bump = "none"
    /\ newSemVer = Null
    /\ retval = Null
    /\ thrown = ""
    /\ stdout = Null
    /\ exitCode = NoCode
    /\ written = NoFiles
    /\ errorOnUnreachable = FALSE
    /\ released = <<>>
    /\ closed = <<>>
    /\ firstRun = NoRun
    /\ previousEndpoints = <<>>
    /\ currentEndpoints = <<>>
    /\ args = NoArgs
    /\ argv = NoArgs
    /\ repo = NoRepo
    /\ promise = NoPromise

NextTags ==
    \/ getHighestVersionTag
    \/ exitOk

SpecTags == InitTags /\ [][NextTags]_vars

\* ------------------------------------------------------------- tests/test
\* The commits of the test repository after the first, in the order
\* tests/test checks them out: the results of the two tsc runs a change of
\* that kind gives (forwards, backwards), and the version the manifest is
\* set to by hand, if any.
Compatible == {<<TRUE, TRUE>>}
Additive == {<<TRUE, FALSE>>}
Breaking == {<<FALSE, TRUE>>, <<FALSE, FALSE>>}
Change(outcomes, declared) == [outcomes |-> outcomes, declared |-> declared]
Changes ==
    <<Change(Compatible, Null),
      Change(Additive, Null),
      Change(Additive \cup Breaking, Null),
      Change(Compatible, Ver(1, 0, 1, <<>>)),
      Change(Additive, Null),
      Change(Breaking, Null)>>

\* the first commit: git tag prints nothing
InitChain ==
    /\ errorOnDirty = FALSE
    /\ treeDirty = FALSE
    /\ prevManifest = NoManifest
    /\ curManifest = NoManifest
    /\ pc = "tagsListed"
    /\ spawned = <<Proc("git rev-parse", "."), Proc("git tag", ".")>>
    /\ failed = {}
    /\ gitOut = [code |-> 0, lines |-> <<>>]
    /\ previousVersion = Absent
    /\ previousVersionHash = NoRef
    /\ currentVersion = NoRef
    /\ currentVersionHash = NoRef
    /\ tempDir = "none"
    /\ dep = "none"
    /\ pmName = "none"
    /\ previousSemVer = Null
    /\ currentSemVer = Null
    /\ tsc = [f \in Files |-> "idle"]
    /\ forwards = FALSE
    /\ backwards = FALSE
    /\ bump = "none"
    /\ newSemVer = Null
    /\ retval = Null
    /\ thrown = ""
    /\ stdout = Null
    /\ exitCode = NoCode
    /\ written = NoFiles
    /\ errorOnUnreachable = FALSE
    /\ released = <<>>
    /\ closed = <<>>
    /\ firstRun = NoRun
    /\ previousEndpoints = <<>>
    /\ currentEndpoints = <<>>
    /\ args = NoArgs
    /\ argv = NoArgs
    /\ repo = NoRepo
    /\ promise = NoPromise

\* testHash: the version just printed is kept, the next commit is checked
\* out and the tool run on it up to the end of its two tsc runs. The
\* previous declared version is the one printed for the commit before; the
\* current manifest declares the version set by hand, or else one that was
\* printed before.
testHash ==
    /\ pc = "exited"
    /\ exitCode = 0
    /\ Len(released) < Len(Changes)
    /\ released' = Append(released, stdout)
    /\ LET change == Changes[Len(released')]
           declarable == IF change.declared = Null
                         THEN {released'[i] : i \in DOMAIN released'}
                         ELSE {change.declared}
       IN  \E o \in change.outcomes, C \in declarable :
              /\ previousSemVer' = stdout
              /\ currentSemVer' = C
              /\ UNCHANGED <<previousEndpoints, currentEndpoints>>
              /\ tsc' = [f \in Files |->
                           IF o[IF f = "currentFitsPrevious.ts" THEN 1 ELSE 2]
                           THEN "ok" ELSE "fail"]
    /\ pc' = "finally"
    /\ tempDir' = "created"
    /\ forwards' = FALSE
    /\ backwards' = FALSE
    /\ bump' = "none"
    /\ newSemVer' = Null
    /\ retval' = Null
    /\ thrown' = ""
    /\ stdout' = Null
    /\ exitCode' = NoCode
    /\ UNCHANGED <<inputs, written, curManifest, spawned, failed, gitOut,
                   refs, dep, pmName, errorOnUnreachable, closed, firstRun,
                   calls>>

NextChain ==
    \/ getHighestVersionTag
    \/ testHash
    \/ finally
    \/ decide
    \/ exitOk
    \/ exitError

SpecChain == InitChain /\ [][NextChain]_vars

\* ------------------------------------------------- the oracle step, twice
\* The tool run twice on one repository state, from the point where the
\* workspace is installed: the close event of each tsc process is recorded
\* with its exit status, in the order the processes close.

\* the processes of a run that has come to the two tsc calls
InstalledLog ==
    LET stages == <<"git clone", "rename", "install", "build", "pack", "mv">>
        packaging(d) == [i \in DOMAIN stages |-> Proc(stages[i], d)]
    IN  <<Proc("git rev-parse", "."), Proc("git tag", "."),
          Proc("git rev-list", "tags"), Proc("git branch", "."),
          Proc("git rev-list", "heads")>>
        \o packaging("previousVersion") \o packaging("currentVersion")
        \o <<Proc("install", "base")>>

\* versions the two manifests declare in these runs
OraclePrevious == {V010, Ver(1, 0, 0, <<>>)}
OracleCurrent == {V010, Ver(1, 0, 1, <<>>)}

InitOracle ==
    /\ errorOnDirty = FALSE
    /\ treeDirty = FALSE
    /\ previousSemVer \in OraclePrevious
    /\ currentSemVer \in OracleCurrent
    /\ prevManifest = Manifest("object", Plain(previousSemVer))
    /\ curManifest = Manifest("object", Plain(currentSemVer))
    /\ pc = "tsc"
    /\ spawned = InstalledLog
    /\ failed = {}
    /\ gitOut = NoGitOut
    /\ previousVersion \in {t \in TagNames : isValidTag(t)}
    /\ previousVersionHash = "c1"
    /\ currentVersion = "main"
    /\ currentVersionHash = "c2"
    /\ tempDir = "created"
    /\ dep = "none"
    /\ pmName = "none"
    /\ tsc = [f \in Files |-> "idle"]
    /\ forwards = FALSE
    /\ backwards = FALSE
    /\ bump = "none"
    /\ newSemVer = Null
    /\ retval = Null
    /\ thrown = ""
    /\ stdout = Null
    /\ exitCode = NoCode
    /\ written = [f \in WorkspaceFiles |->
                    IF f = "package.json" THEN workspaceManifest
                    ELSE witnessAssertion(f)]
    /\ errorOnUnreachable = FALSE
    /\ released = <<>>
    /\ closed = <<>>
    /\ firstRun = NoRun
    /\ previousEndpoints =
          extractEntryPointsAndVersion(prevManifest).entryPoints
    /\ currentEndpoints =
          extractEntryPointsAndVersion(curManifest).entryPoints
    /\ args = NoArgs
    /\ argv = NoArgs
    /\ repo = NoRepo
    /\ promise = NoPromise

\* spawn's close handler for the tsc process of f: resolve({code, ...})
tscOnClose(f) ==
    /\ \E code \in ExitCodes :
        /\ tscCloseWith(f, code)
        /\ closed' = Append(closed, [file |-> f, code |-> code])
    /\ UNCHANGED <<errorOnUnreachable, released, firstRun, calls>>

\* The tool is run again on the same repository: what the first run did is
\* kept, and every step up to the install of the workspace goes as before.
rerun ==
    /\ pc = "exited"
    /\ ~firstRun.ran
    /\ firstRun' = [ran |-> TRUE, closed |-> closed, tempDir |-> tempDir,
                    thrown |-> thrown, stdout |-> stdout,
                    exitCode |-> exitCode]
    /\ pc' = "tsc"
    /\ spawned' = InstalledLog
    /\ tempDir' = "created"
    /\ tsc' = [f \in Files |-> "idle"]
    /\ forwards' = FALSE
    /\ backwards' = FALSE
    /\ bump' = "none"
    /\ newSemVer' = Null
    /\ retval' = Null
    /\ thrown' = ""
    /\ stdout' = Null
    /\ exitCode' = NoCode
    /\ closed' = <<>>
    /\ UNCHANGED <<inputs, written, curManifest, failed, gitOut, refs, dep,
                   pmName, extracted, errorOnUnreachable, released,
                   calls>>

NextOracle ==
    \/ spawnTsc
    \/ \E f \in Files : tscOnClose(f)
    \/ finally
    \/ decide
    \/ exitOk
    \/ exitError
    \/ rerun

SpecOracle == InitOracle /\ [][NextOracle]_vars

\* ------------------------------------------------- isReachable on any pair
\* The revision of main in src/main.mjs that goes from getCurrentBranch
\* straight to isReachable: the tag and the branch may name the same commit.
\* previousVersionHash and currentVersionHash are the commits they name.
InitAncestry ==
    /\ errorOnDirty = FALSE
    /\ treeDirty = FALSE
    /\ prevManifest = Manifest("object", Plain(V010))
    /\ curManifest = NoManifest
    /\ pc = "isReachable"
    /\ spawned = <<Proc("git rev-parse", "."), Proc("git tag", "."),
                   Proc("git branch", ".")>>
    /\ failed = {}
    /\ gitOut = NoGitOut
    /\ previousVersion \in {t \in TagNames : isValidTag(t)}
    /\ previousVersionHash \in GraphCommits
    /\ currentVersion = "main"
    /\ currentVersionHash \in GraphCommits
    /\ tempDir = "none"
    /\ dep = "none"
    /\ pmName = "none"
    /\ previousSemVer = Null
    /\ currentSemVer = Null
    /\ tsc = [f \in Files |-> "idle"]
    /\ forwards = FALSE
    /\ backwards = FALSE
    /\ bump = "none"
    /\ newSemVer = Null
    /\ retval = Null
    /\ thrown = ""
    /\ stdout = Null
    /\ exitCode = NoCode
    /\ written = NoFiles
    /\ errorOnUnreachable \in BOOLEAN
    /\ released = <<>>
    /\ closed = <<>>
    /\ firstRun = NoRun
    /\ previousEndpoints = <<>>
    /\ currentEndpoints = <<>>
    /\ args = NoArgs
    /\ argv = NoArgs
    /\ repo = NoRepo
    /\ promise = NoPromise

NextAncestry ==
    \/ isReachable
    \/ mkdtemp
    \/ mkdir
    \/ cloneTo
    \/ finally
    \/ exitError

SpecAncestry == InitAncestry /\ [][NextAncestry]_vars

\* ------------------------------------------------------ the entry points
\* createVersionWitnesses from its two extractEntryPointsAndVersion calls on,
\* the package.json packed at the tagged commit being any JSON document.

\* the package.json files of the tagged commit
PackedManifests ==
    {PackageJson("object", r, t, e) :
        r \in {Absent, Plain(V010)}, t \in BOOLEAN, e \in ExportsMaps}
    \cup {Manifest(k, Absent) :
            k \in {"array", "null", "primitive", "unparsable", "missing"}}

\* the processes of a run that has packed both versions
PackedLog == SubSeq(InstalledLog, 1, Len(InstalledLog) - 1)

InitExtract ==
    /\ errorOnDirty = FALSE
    /\ treeDirty = FALSE
    /\ prevManifest \in PackedManifests
    /\ curManifest = NoManifest
    /\ pc = "extract"
    /\ spawned = PackedLog
    /\ failed = {}
    /\ gitOut = NoGitOut
    /\ previousVersion \in {t \in TagNames : isValidTag(t)}
    /\ previousVersionHash = "c1"
    /\ currentVersion = "main"
    /\ currentVersionHash = "c2"
    /\ tempDir = "created"
    /\ dep = "none"
    /\ pmName = "none"
    /\ previousSemVer = Null
    /\ currentSemVer = Null
    /\ tsc = [f \in Files |-> "idle"]
    /\ forwards = FALSE
    /\ backwards = FALSE
    /\ bump = "none"
    /\ newSemVer = Null
    /\ retval = Null
    /\ thrown = ""
    /\ stdout = Null
    /\ exitCode = NoCode
    /\ written = NoFiles
    /\ errorOnUnreachable = FALSE
    /\ released = <<>>
    /\ closed = <<>>
    /\ firstRun = NoRun
    /\ previousEndpoints = <<>>
    /\ currentEndpoints = <<>>
    /\ args = NoArgs
    /\ argv = NoArgs
    /\ repo = NoRepo
    /\ promise = NoPromise

NextExtract ==
    \/ extract
    \/ writeFile
    \/ finally
    \/ exitError

SpecExtract == InitExtract /\ [][NextExtract]_vars

\* ---------------------------------------------------------------- parseArgs
\* src/src/args.mjs: parseArgs(args) on a repository whose tags and branches
\* git.mjs lists. Names are strings that may name a version.

\* main has not started: every variable of the run as Init leaves it
MainNotStarted ==
    /\ errorOnDirty = FALSE
    /\ treeDirty = FALSE
    /\ prevManifest = Manifest("object", Plain(V010))
    /\ curManifest = NoManifest
    /\ spawned = <<>>
    /\ failed = {}
    /\ gitOut = NoGitOut
    /\ previousVersion = Absent
    /\ previousVersionHash = NoRef
    /\ currentVersion = NoRef
    /\ currentVersionHash = NoRef
    /\ tempDir = "none"
    /\ dep = "none"
    /\ pmName = "none"
    /\ previousSemVer = Null
    /\ currentSemVer = Null
    /\ tsc = [f \in Files |-> "idle"]
    /\ forwards = FALSE
    /\ backwards = FALSE
    /\ bump = "none"
    /\ newSemVer = Null
    /\ retval = Null
    /\ thrown = ""
    /\ stdout = Null
    /\ exitCode = NoCode
    /\ written = NoFiles
    /\ errorOnUnreachable = FALSE
    /\ released = <<>>
    /\ closed = <<>>
    /\ firstRun = NoRun
    /\ previousEndpoints = <<>>
    /\ currentEndpoints = <<>>

\* the default of the from and to options: the empty string
NoOption == EmptyLine
\* a branch name that is no version
MainBranch == Raw(FALSE, FALSE, Null, TRUE)
\* the names a repository may hold, and one more a user may type
RefNames ==
    {MainBranch, Plain(V010), Raw(TRUE, TRUE, Ver(1, 0, 1, <<>>), FALSE)}
TypedNames == RefNames \cup {Plain(Ver(1, 1, 1, <<>>))}

\* getTagsAndBranches and getCurrentBranch (null on a detached HEAD)
Repos ==
    {[tagsAndBranches |-> names, currentBranch |-> branch] :
        names \in SUBSET RefNames, branch \in {MainBranch, Absent}}

InitArgs ==
    /\ MainNotStarted
    /\ pc = "check"
    /\ args \in [from : TypedNames \cup {NoOption},
                 to : TypedNames \cup {NoOption}]
    /\ argv = NoArgs
    /\ repo \in {r \in Repos :
                    r.currentBranch \in r.tagsAndBranches \cup {Absent}}
    /\ promise = NoPromise

ReferenceError == "ReferenceError: tagsAnsBranches is not defined"

\* yargs parses the options and awaits the check callback; a false result
\* makes yargs print the usage and exit with status 1. `other` stands for
\* the errors on the dir and semver arguments.
check ==
    /\ pc = "check"
    /\ \E other \in BOOLEAN :
        LET errors ==
                \/ other
                \/ args.from # NoOption
                      /\ args.from \notin repo.tagsAndBranches
                \/ args.to # NoOption /\ args.to \notin repo.tagsAndBranches
        IN  IF errors
            THEN /\ exitCode' = 1
                 /\ pc' = "exited"
                 /\ UNCHANGED argv
            ELSE /\ argv' = args
                 /\ pc' = "parsed"
                 /\ UNCHANGED exitCode
    /\ UNCHANGED <<inputs, written, curManifest, spawned, failed, gitOut,
                   refs, tempDir, dep, pmName, extracted, oracle, decision,
                   retval, thrown, stdout, errorOnUnreachable, released,
                   closed, firstRun, args, repo, promise>>

\* parseArgs after yargs resolved: tagsAnsBranches is a constant of the
\* check callback and names nothing here, so reading it throws
parseArgs ==
    /\ pc = "parsed"
    /\ IF argv.from = NoOption
       THEN /\ Throw(ReferenceError)
            /\ UNCHANGED argv
       ELSE /\ argv' = [argv EXCEPT !.to = IF argv.to = NoOption
                                            THEN repo.currentBranch
                                            ELSE argv.to]
            /\ pc' = "parseArgsReturned"
            /\ UNCHANGED thrown
    /\ UNCHANGED <<inputs, written, curManifest, spawned, failed, gitOut,
                   refs, tempDir, dep, pmName, extracted, oracle, decision,
                   retval, output, errorOnUnreachable, released, closed,
                   firstRun, args, repo, promise>>

NextArgs ==
    \/ check
    \/ parseArgs
    \/ exitError

SpecArgs == InitArgs /\ [][NextArgs]_vars

\* -------------------------------------------------------------------- spawn
\* spawn(command, args, options) by itself: the executor of the promise it
\* returns, the data handlers of the child's two streams and its close
\* handler.

\* commands main spawns
SpawnCommands ==
    {Proc("git rev-parse", "."), Proc("git tag", "."),
     Proc("install", "base"), Proc("tsc", "currentFitsPrevious.ts")}

Streams == {"stdout", "stderr"}

Pending(command) ==
    [state |-> "pending", command |-> command, code |-> NoCode,
     stdout |-> <<>>, stderr |-> <<>>, reason |-> ""]

InitSpawn ==
    /\ MainNotStarted
    /\ pc = "spawn"
    /\ args = NoArgs
    /\ argv = NoArgs
    /\ repo = NoRepo
    /\ promise = NoPromise

CodeReferenceError == "ReferenceError: code is not defined"

\* the executor: child_process.spawn returns the child and the handlers are
\* registered, or something in the try block throws; the catch block then
\* writes `[CODE] ${code}`, and code names nothing there, so the executor
\* throws before its resolve and the promise is rejected
spawn ==
    /\ pc = "spawn"
    /\ \E command \in SpawnCommands, launched \in BOOLEAN :
        IF launched
        THEN /\ promise' = Pending(command)
             /\ pc' = "child"
        ELSE /\ promise' = [Pending(command) EXCEPT
                               !.state = "rejected",
                               !.reason = CodeReferenceError]
             /\ pc' = "settled"
    /\ UNCHANGED <<inputs, written, curManifest, spawned, failed, gitOut,
                   refs, tempDir, dep, pmName, extracted, oracle, decision,
                   retval, thrown, output, errorOnUnreachable, released,
                   closed, firstRun, args, argv, repo>>

\* child.stdout.on("data", ...) and child.stderr.on("data", ...)
onData(stream) ==
    /\ pc = "child"
    /\ Len(promise[stream]) < MaxChunks
    /\ promise' = [promise EXCEPT ![stream] = Append(@, "data")]
    /\ UNCHANGED <<inputs, written, curManifest, pc, spawned, failed,
                   gitOut, refs, tempDir, dep, pmName, extracted, oracle,
                   decision, retval, thrown, output, errorOnUnreachable,
                   released, closed, firstRun, args, argv, repo>>

\* child.on("close", (code) => ... resolve({ code, stdout, stderr }))
onClose ==
    /\ pc = "child"
    /\ \E code \in ExitCodes :
        /\ Spawned(promise.command, code)
        /\ promise' = [promise EXCEPT !.state = "resolved", !.code = code]
    /\ pc' = "settled"
    /\ UNCHANGED <<inputs, written, curManifest, gitOut, refs, tempDir, dep,
                   pmName, extracted, oracle, decision, retval, thrown,
                   output, errorOnUnreachable, released, closed, firstRun,
                   args, argv, repo>>

NextSpawn ==
    \/ spawn
    \/ \E stream \in Streams : onData(stream)
    \/ onClose

SpecSpawn == InitSpawn /\ [][NextSpawn]_vars

\* ================================================================== claims
Range(seq) == {seq[i] : i \in DOMAIN seq}

\* Precedence of semantic versions as semver.org section 11 states it.
IdPrecedes(x, y) ==
    \/ x.num /\ y.num /\ x.v < y.v
    \/ x.num /\ ~y.num
    \/ ~x.num /\ ~y.num /\ x.v < y.v

PrePrecedes(p, q) ==
    \/ p # <<>> /\ q = <<>>
    \/ /\ p # <<>> /\ q # <<>>
       /\ \/ \E i \in 1..Len(p) :
               /\ i <= Len(q)
               /\ \A j \in 1..(i - 1) : p[j] = q[j]
               /\ IdPrecedes(p[i], q[i])
          \/ /\ Len(p) < Len(q)
             /\ \A j \in 1..Len(p) : p[j] = q[j]

Precedes(a, b) ==
    \/ a.major < b.major
    \/ a.major = b.major /\ a.minor < b.minor
    \/ a.major = b.major /\ a.minor = b.minor /\ a.patch < b.patch
    \/ /\ a.major = b.major /\ a.minor = b.minor /\ a.patch = b.patch
       /\ PrePrecedes(a.pre, b.pre)

\* main returned a version after a comparison (not by a short circuit)
Returned == pc = "returned" \/ (pc = "exited" /\ exitCode = 0)
ReturnedAfterComparison == Returned /\ bump # "none"

\* the clone, package-manager and type-check processes
HeavyCommands == {"git clone", "rename", "install", "build", "pack", "mv",
                  "tsc"}
NoHeavyProcess(log) == \A p \in Range(log) : p.cmd \notin HeavyCommands

\* The bump of the decision table of the README and of section 4.5.
TableBump(forwardsOk, backwardsOk, P) ==
    IF forwardsOk /\ backwardsOk THEN "patch"
    ELSE IF forwardsOk THEN "minor"
    ELSE IF P.major = 0 THEN "minor"
    ELSE "major"

\* A release bumped the way its name says.
Bumped(P, kind) ==
    IF kind = "patch" THEN Ver(P.major, P.minor, P.patch + 1, <<>>)
    ELSE IF kind = "minor" THEN Ver(P.major, P.minor + 1, 0, <<>>)
    ELSE Ver(P.major + 1, 0, 0, <<>>)

\* C1: for every valid previous declared version P and every pair
\* (forwardsOk, backwardsOk), the bump main applies to P is the one of the
\* decision table: patch when both hold, minor when only forwardsOk holds,
\* and, when forwardsOk does not hold, minor if P's major is 0 and major
\* otherwise; the new version is P with that bump applied.
C1_DecisionTable ==
    (bump # "none" /\ previousSemVer # Null) =>
        /\ bump = TableBump(forwards, backwards, previousSemVer)
        /\ newSemVer = inc(previousSemVer, bump)
        /\ previousSemVer.pre = <<>> =>
               newSemVer = Bumped(previousSemVer, bump)

C1_Witness ==
    /\ pc = "exited"
    /\ bump = "major"
    /\ ~forwards /\ backwards
    /\ previousSemVer.major = 1
    /\ stdout = Ver(2, 0, 0, <<>>)

\* C2: the version main returns after a comparison is the greater, in
\* semantic-version order, of the computed bump and the current declared
\* version C: the bump unless C is greater than it, and then C.
C2_ReturnsGreater ==
    ReturnedAfterComparison =>
        /\ previousSemVer # Null /\ currentSemVer # Null
        /\ retval = IF Precedes(newSemVer, currentSemVer)
                    THEN currentSemVer ELSE newSemVer

C2_Witness ==
    /\ pc = "exited"
    /\ bump = "patch"
    /\ Precedes(newSemVer, currentSemVer)
    /\ stdout = currentSemVer

\* C3: the version main returns after a comparison is strictly greater
\* than the previous declared version P in semantic-version order.
C3_GreaterThanPrevious ==
    ReturnedAfterComparison => Precedes(previousSemVer, retval)

C3_Witness ==
    /\ pc = "exited"
    /\ bump = "minor"
    /\ previousSemVer = Ver(1, 1, 0, <<NumId(0)>>)
    /\ stdout = Ver(1, 1, 0, <<>>)

\* C4: when P's major is 0 the computed bump has major 0 whatever the oracle
\* said, and the version returned has a non-zero major only if C has one.
C4_ZeroMajorKept ==
    (bump # "none" /\ previousSemVer # Null /\ previousSemVer.major = 0) =>
        /\ newSemVer.major = 0
        /\ (Returned /\ retval.major # 0) =>
               currentSemVer.major # 0

C4_Witness ==
    /\ pc = "exited"
    /\ previousSemVer.major = 0
    /\ ~forwards
    /\ stdout.major = 0
    /\ exitCode = 0

NoValidTag(lines) == \A i \in DOMAIN lines : ~lines[i].ok

\* C5: when the root is found, the dirty-tree check lets the run go on and
\* git lists no tag whose name is a valid semantic version, main returns
\* exactly 0.1.0, the run prints it and exits 0, and no clone,
\* package-manager or type-check process is spawned in that run.
C5_NoTagGivesInitialVersion ==
    /\ [][(pc = "tagsListed" /\ NoValidTag(gitOut.lines)) =>
            (pc' = "returned" /\ retval' = V010 /\ previousVersion' = Absent)
         ]_vars
    /\ []((previousVersion = Absent /\ Returned) =>
            /\ retval = V010
            /\ NoHeavyProcess(spawned)
            /\ tempDir = "none"
            /\ pc = "exited" => (stdout = V010 /\ exitCode = 0))

C5_Witness ==
    /\ pc = "exited"
    /\ stdout = V010
    /\ exitCode = 0
    /\ spawned[Len(spawned)] = Proc("git tag", ".")
    /\ failed = {}

SameCommit ==
    previousVersionHash # NoRef /\ previousVersionHash = currentVersionHash

C7_TempDirRemoved ==
    (tempDir # "none" /\ pc \in {"decide", "returned", "threw", "exited"}) =>
        tempDir \in {"removed", "rmFailed"}

C7_Witness ==
    /\ pc = "threw"
    /\ thrown = "error: failed to build"
    /\ dep = "currentVersion"
    /\ tempDir = "removed"

\* C8 as stated: whenever an external process other than the type-check
\* oracle exits with a non-zero status, the run ends with exit status 1 and
\* an error message, and no version is written to standard output.
C8_AnyFailureAborts ==
    (pc = "exited" /\ failed # {}) =>
        (exitCode = 1 /\ thrown # "" /\ stdout = Null)

\* The processes of one packaging run, in the order of createTgzDependency
\* and pm_packTo; pm_build spawns nothing for a yarn package without a build
\* script.
StagesWithBuild == <<"git clone", "rename", "install", "build", "pack", "mv">>
StagesWithoutBuild == <<"git clone", "rename", "install", "pack", "mv">>
IsPrefix(s, t) == Len(s) <= Len(t) /\ \A i \in DOMAIN s : s[i] = t[i]

\* the commands spawned so far for dependency d, in order
StagesOf(d) ==
    LET isOfDep(p) == p.arg = d
        procs == SelectSeq(spawned, isOfDep)
    IN  [i \in DOMAIN procs |-> procs[i].cmd]

\* C9: within one packaging run the stages are spawned in the order clone,
\* rename, install, build, pack (and the move of the archive), each at most
\* once and only after the stage before it exited 0 (the build of a yarn
\* package without a build script spawns nothing); once a process has exited
\* non-zero, nothing more is spawned in the run.
C9_StagesInOrder ==
    /\ \A d \in Deps :
          \/ IsPrefix(StagesOf(d), StagesWithBuild)
          \/ IsPrefix(StagesOf(d), StagesWithoutBuild)
    /\ \A i \in DOMAIN spawned : spawned[i] \in failed => i = Len(spawned)

C9_Witness ==
    /\ pc = "exited"
    /\ failed = {Proc("build", "currentVersion")}
    /\ Proc("mv", "previousVersion") \in Range(spawned)
    /\ Proc("build", "previousVersion") \notin Range(spawned)
    /\ exitCode = 1

DirtyError == "error: dirty working tree"

\* C10: with error-on-dirty enabled and uncommitted changes in the working
\* tree, main aborts with the dirty-tree error before any tag or branch is
\* resolved and before any clone is spawned; with error-on-dirty disabled
\* git status is never run, so the state of the tree cannot affect the run.
C10_DirtyAborts ==
    /\ (errorOnDirty /\ treeDirty) =>
          /\ \A p \in Range(spawned) : p.cmd \in {"git rev-parse", "git status"}
          /\ pc \in {"getRoot", "isDirty", "threw", "exited"}
          /\ Proc("git status", ".") \in Range(spawned) => thrown = DirtyError
          /\ stdout = Null
    /\ ~errorOnDirty =>
          /\ Proc("git status", ".") \notin Range(spawned)
          /\ thrown # DirtyError

C10_Witness ==
    /\ errorOnDirty /\ treeDirty
    /\ pc = "exited"
    /\ thrown = DirtyError
    /\ failed = {}
    /\ exitCode = 1

DetachedHeadError == "error: no current version --- detached HEAD?"

\* C16 as stated: when the repository has a previous semver tag and no
\* branch is checked out (git branch --show-current succeeds and prints no
\* name), main fails with the detached-HEAD error and goes on to no later
\* step.
C16_DetachedHeadError ==
    (previousVersion.ok /\ currentVersion = "" /\ pc \in {"threw", "exited"}) =>
        /\ thrown = DetachedHeadError
        /\ Proc("git rev-list", "heads") \notin Range(spawned)

\* a process that was spawned and closed with status 0
ExitedZero(p) ==
    (\E i \in DOMAIN spawned : spawned[i] = p) /\ p \notin failed
PackagingStarted(d) ==
    \E i \in DOMAIN spawned : spawned[i] = Proc("git clone", d)
PackagingFinished(d) == ExitedZero(Proc("mv", d))

\* C17 as stated: the two packaging runs execute concurrently, both being
\* started before either has finished; so whenever the packaging of the
\* previous reference has finished, that of the current reference has been
\* started.
C17_PackagingOverlaps ==
    PackagingFinished("previousVersion") => PackagingStarted("currentVersion")

\* C18: the two tsc runs are started only after both archives have been
\* packed and moved, package.json and the two witness files have been
\* written and the install of the workspace has exited 0; they are started
\* together, and main decides only after both have closed.
C18_OraclesAfterWorkspace ==
    /\ (\E f \in Files : tsc[f] # "idle") =>
          /\ \A d \in Deps : PackagingFinished(d)
          /\ DOMAIN written = WorkspaceFiles
          /\ ExitedZero(Proc("install", "base"))
          /\ \A f \in Files : tsc[f] # "idle"
    /\ (pc = "decide" \/ bump # "none") =>
          \A f \in Files : tsc[f] \in {"ok", "fail"}

C18_Witness ==
    /\ pc = "awaitTsc"
    /\ \A f \in Files : tsc[f] = "running"
    /\ Proc("tsc", "previousFitsCurrent.ts") \in Range(spawned)

\* the exit status in the close event of the tsc process of file f
exitStatus(log, f) ==
    LET i == CHOOSE j \in DOMAIN log : log[j].file = f IN log[i].code

\* the second run met the outcomes of the first: the same exit status of
\* each tsc process, the same result of the removal of the temporary
\* directory
SameOutcomes ==
    /\ \A f \in Files : exitStatus(closed, f) = exitStatus(firstRun.closed, f)
    /\ tempDir = firstRun.tempDir

\* C15: two runs of main on the same repository state in which every
\* external process gives the same outcome end the same way, with the same
\* version printed, whatever the order in which the two tsc processes close
\* in each run.
C15_Idempotent ==
    (firstRun.ran /\ pc = "exited" /\ SameOutcomes) =>
        /\ stdout = firstRun.stdout
        /\ exitCode = firstRun.exitCode
        /\ thrown = firstRun.thrown

C15_Witness ==
    /\ firstRun.ran
    /\ pc = "exited"
    /\ SameOutcomes
    /\ closed[1].file # firstRun.closed[1].file
    /\ closed[1].code # closed[2].code
    /\ previousSemVer.major = 1
    /\ stdout = Ver(2, 0, 0, <<>>)

\* C19: the check of a witness file gives true exactly when its tsc process
\* closes with status 0; a non-zero status and a missing one (null) give
\* false, never an error; and in a run each of the two witness files is
\* checked by exactly one tsc process, which closes once.
C19_OracleResult ==
    /\ \A i \in DOMAIN closed :
          /\ tsc[closed[i].file] = IF closed[i].code = 0 THEN "ok" ELSE "fail"
          /\ \A j \in DOMAIN closed : closed[j].file = closed[i].file => j = i
    /\ \A f \in Files :
          Cardinality({i \in DOMAIN spawned : spawned[i] = Proc("tsc", f)})
              = IF tsc[f] = "idle" THEN 0 ELSE 1
    /\ pc \in {"awaitTsc", "finally"} => thrown = ""
    /\ pc = "decide" =>
          /\ forwards = (exitStatus(closed, "currentFitsPrevious.ts") = 0)
          /\ backwards = (exitStatus(closed, "previousFitsCurrent.ts") = 0)

C19_Witness ==
    /\ pc = "decide"
    /\ ~firstRun.ran
    /\ exitStatus(closed, "currentFitsPrevious.ts") = NoCode
    /\ exitStatus(closed, "previousFitsCurrent.ts") = 0
    /\ ~forwards /\ backwards

C12_HighestTag ==
    [][(pc = "tagsListed" /\ gitOut.code = 0) =>
          IF NoValidTag(gitOut.lines)
          THEN previousVersion' = Absent
          ELSE /\ previousVersion' \in Range(gitOut.lines)
               /\ previousVersion'.ok
               /\ \A i \in DOMAIN gitOut.lines :
                     gitOut.lines[i].ok =>
                         ~Precedes(previousVersion'.ver, gitOut.lines[i].ver)
      ]_vars

C12_Witness ==
    /\ pc = "getRefCommitPrevious"
    /\ previousVersion = Raw(TRUE, FALSE, Ver(1, 0, 1, <<>>), TRUE)
    /\ gitOut = NoGitOut

\* the versions tests/test expects, in order
Expected ==
    <<V010, Ver(0, 1, 1, <<>>), Ver(0, 2, 0, <<>>), Ver(0, 3, 0, <<>>),
      Ver(1, 0, 1, <<>>), Ver(1, 1, 0, <<>>), Ver(2, 0, 0, <<>>)>>

\* C14: in the chain in which the previous declared version of each run is
\* the version printed by the run before, the runs print 0.1.0 (no tag),
\* 0.1.1 (compatible change), 0.2.0 (additive), 0.3.0 (additive or breaking
\* under major 0), 1.0.1 (compatible, the manifest declaring 1.0.1), 1.1.0
\* (additive) and 2.0.0 (breaking).
C14_FixtureSequence ==
    /\ Len(released) < Len(Expected)
    /\ \A i \in DOMAIN released : released[i] = Expected[i]
    /\ (pc = "exited" /\ exitCode = 0) =>
          stdout = Expected[Len(released) + 1]

C14_Witness ==
    /\ pc = "exited"
    /\ released = SubSeq(Expected, 1, Len(Changes))
    /\ ~forwards /\ ~backwards
    /\ stdout = Ver(2, 0, 0, <<>>)

\* C11 as stated: with errorOnUnreachable set, whenever the commit of the
\* previous tag is not an ancestor of the commit of the current branch, main
\* aborts with the unreachable error before any clone is made and before
\* any witness file is written.
C11_UnreachableAborts ==
    (/\ errorOnUnreachable
     /\ pc # "isReachable"
     /\ previousVersionHash \notin Ancestors(currentVersionHash)) =>
        /\ thrown = UnreachableError
        /\ NoHeavyProcess(spawned)
        /\ tempDir = "none"
        /\ written = NoFiles

\* C28: a version is written to standard output only after the scratch
\* workspace has been removed: in every state where the run has printed a
\* version following a comparison the removal has completed, and a failed
\* removal makes the run exit with status 1 without printing a version.
C28_PrintedAfterRemoval ==
    /\ (stdout # Null /\ bump # "none") => tempDir = "removed"
    /\ tempDir = "rmFailed" =>
          /\ pc \in {"threw", "exited"}
          /\ thrown = "rm failed"
          /\ stdout = Null
          /\ pc = "exited" => exitCode = 1

C28_Witness ==
    /\ pc = "exited"
    /\ exitCode = 0
    /\ bump = "minor"
    /\ stdout = newSemVer
    /\ tempDir = "removed"

\* C27 as stated: whenever the previous tag and the current branch are
\* different commits and the run succeeds, the version main returns is
\* strictly greater than the version named by the previous tag, whatever
\* version the manifest at the tagged commit declares.
C27_AboveHighestTag ==
    (ReturnedAfterComparison /\ previousVersionHash # currentVersionHash) =>
        Precedes(valid(previousVersion), retval)

\* C25 as stated: a current manifest without a valid version is permitted;
\* with a valid previous declared version the run succeeds and prints the
\* bump computed from it, for every oracle outcome.
C25_NullCurrentPermitted ==
    (/\ pc = "exited"
     /\ bump # "none"
     /\ tempDir = "removed"
     /\ curManifest.kind = "object"
     /\ currentSemVer = Null
     /\ previousSemVer # Null) =>
        (exitCode = 0 /\ stdout = newSemVer)

\* C22 as stated: the entry-point list returned for an artifact is never
\* empty; for a manifest with neither a root types field nor an export with
\* a types field it is the single root entry point.
C22_NeverEmpty ==
    pc = "writeFile" =>
        /\ previousEndpoints # <<>>
        /\ currentEndpoints # <<>>
        /\ (~prevManifest.types /\ exportedEntryPoints(prevManifest.exports)
                                      = <<>>) => previousEndpoints = <<"">>

\* C23 as stated: for every manifest object the entry-point list returned
\* is in ascending lexicographic order and holds no entry point twice.
C23_SortedNoDuplicates ==
    pc = "writeFile" =>
        \A i, j \in DOMAIN previousEndpoints :
            i < j => stringLess(previousEndpoints[i], previousEndpoints[j])

\* C24 as stated: for a manifest whose parsed value is not a JSON object
\* the extraction fails with "error: malformed package.json", a missing or
\* unparsable manifest fails the run too, and no version is returned.
C24_MalformedManifest ==
    (pc # "extract" /\ prevManifest.kind # "object") =>
        /\ curManifest = NoManifest
        /\ previousSemVer = Null
        /\ thrown # ""
        /\ (pc = "finally"
               /\ prevManifest.kind \in {"array", "null", "primitive"}) =>
              thrown = "error: malformed package.json"

\* C29 as stated: for a manifest that is a JSON object the extraction never
\* raises, whatever the values of its exports map: a string, null or an
\* object without a types field is skipped, an object with a types field
\* contributes its key.
C29_ObjectNeverRaises ==
    (pc # "extract" /\ prevManifest.kind = "object") =>
        /\ curManifest # NoManifest
        /\ \A i \in DOMAIN prevManifest.exports :
              prevManifest.exports[i].value = "withTypes" <=>
                  \E k \in DOMAIN previousEndpoints :
                      /\ previousEndpoints[k] = prevManifest.exports[i].key
                      /\ (prevManifest.types /\ previousEndpoints[k] = "") =>
                            k > 1

\* C21 as stated: isReachable returns true if and only if the older
\* reference is an ancestor of the newer one, for every pair of references
\* of a commit graph: linear history, identical commits, newer behind older
\* and diverged branches.
C21_ReachableIffAncestor ==
    (/\ pc # "isReachable"
     /\ errorOnUnreachable
     /\ Proc("git rev-list", "boundary") \notin failed) =>
        (thrown # UnreachableError <=>
            previousVersionHash \in Ancestors(currentVersionHash))

\* the names of a repository that semver.valid accepts and no other outranks
GreatestNames(names) ==
    {n \in names : /\ isValidTag(n)
                   /\ \A m \in names : isValidTag(m) => rcompareRaw(n, m) <= 0}

\* C26 as stated: called without a from option and without a to option,
\* with validation passing, parseArgs returns from equal to the greatest
\* semver-valid name among the tags and branches (null when none is valid)
\* and to equal to the current branch; an explicitly given from or to is
\* returned unchanged.
C26_DefaultRefs ==
    (pc = "parseArgsReturned" \/ thrown # "") =>
        /\ thrown = ""
        /\ args.from # NoOption => argv.from = args.from
        /\ args.to # NoOption => argv.to = args.to
        /\ args.to = NoOption => argv.to = repo.currentBranch
        /\ args.from = NoOption =>
              IF GreatestNames(repo.tagsAndBranches) = {}
              THEN argv.from = Absent
              ELSE argv.from \in GreatestNames(repo.tagsAndBranches)

\* C30 as stated: the spawn wrapper never rejects: whether the child closes
\* with any exit status or launching it throws synchronously, the promise
\* resolves to an object carrying a code, the captured standard output and
\* the captured standard error.
C30_NeverRejects ==
    pc = "settled" =>
        /\ promise.state = "resolved"
        /\ promise.reason = ""

====
